---- MODULE Spec2Model ----
(***************************************************************************)
(* Model of mayan/apps/tags/models.py: the Tag model, its many-to-many     *)
(* relation to Document, the two relation operations attach_to and         *)
(* remove_from, the two access-filtered queries, and save() with its       *)
(* created/edited event emission.                                          *)
(***************************************************************************)
EXTENDS Integers, Sequences, FiniteSets

\* ---------------------------------------------------------------- bounds
MaxTags == 2      \* primary keys of the Tag table
MaxDocs == 2      \* primary keys of the Document table
MaxEvents == 3    \* length of the event log at which the model stops

TagIds == 1..MaxTags
Documents == 1..MaxDocs

\* Field values.  A label and a color are opaque strings to this module;
\* two of each give equal and different labels, changed and unchanged colors.
Labels == {"alpha", "beta"}
Colors == {"#ff0000", "#00ff00"}

\* Python's None: the default of the `user` parameter of attach_to and
\* remove_from, and the actor and action object of an event of save().
None == "None"

\* The users.  No operation relates two users (a grant is per user, an actor
\* is only recorded), so one user and None stand for all of them.
Users == {"alice"}

\* the reference stored for an event argument that is None
NoRef == <<"None", 0>>

VARIABLES
    tags,       \* the Tag table: primary key -> row (label, color)
    documents,  \* the through table of Tag.documents: sequence of rows
    events,     \* the committed events, oldest first
    acl,        \* pairs <<user, document>> granted permission_document_view
    call        \* the last call: its method, arguments, outcome

vars == <<tags, documents, events, acl, call>>

\* ------------------------------------------------------ the Tag table
Stored == DOMAIN tags

\* variant: the label column without unique=True
LabelTaken_never(t, label) == FALSE

\* label = CharField(unique=True): the table rejects a row whose label is
\* the label of another row.
LabelTaken(t, label) ==
    \E o \in Stored : o # t /\ tags[o].label = label

\* ------------------------------------------------ the documents relation
Row(t, d) == [tag_id |-> t, document_id |-> d]

HasRow(rel, t, d) == \E i \in 1..Len(rel) : rel[i] = Row(t, d)

\* variant: add() that inserts the through row without looking for it
documents_add_duplicate(rel, t, d) == Append(rel, Row(t, d))

\* variant: set([document]) in place of add(document)
documents_add_set(rel, t, d) ==
    Append(SelectSeq(rel, LAMBDA r : r.tag_id # t), Row(t, d))

\* self.documents.add(document): inserts the through row unless it exists
documents_add(rel, t, d) ==
    IF HasRow(rel, t, d) THEN rel ELSE Append(rel, Row(t, d))

\* variant: a remove() that deletes no row
documents_remove_nothing(rel, t, d) == rel

\* variant: clear() in place of remove(document)
documents_remove_clear(rel, t, d) ==
    SelectSeq(rel, LAMBDA r : r.tag_id # t)

\* self.documents.remove(document): deletes the through rows of the pair
documents_remove(rel, t, d) ==
    SelectSeq(rel, LAMBDA r : ~(r.tag_id = t /\ r.document_id = d))

\* the documents joined through the rows of tag t in the through table rel
documents_of(rel, t) ==
    LET rows == SelectSeq(rel, LAMBDA r : r.tag_id = t)
    IN  [i \in 1..Len(rows) |-> rows[i].document_id]

\* self.documents.all()
documents_all(t) == documents_of(documents, t)

\* ------------------------------------------------------ access filtering
\* AccessControlList.objects.restrict_queryset(permission_document_view,
\* queryset, user): the rows of the queryset the user may view
restrict_queryset(queryset, user) ==
    SelectSeq(queryset, LAMBDA d : <<user, d>> \in acl)

\* variant: get_documents() that returns self.documents.all() unfiltered
get_documents_unrestricted(t, user) == documents_all(t)

\* Tag.get_documents(user)
get_documents(t, user) == restrict_queryset(documents_all(t), user)

\* Tag.get_document_count(user): queryset.count(), the number of rows
get_document_count(t, user) == Len(restrict_queryset(documents_all(t), user))

\* ----------------------------------------------------------------- events
\* event.commit(action_object, actor, target) stores one event
Commit(log, verb, action_object, actor, target) ==
    Append(log, [verb |-> verb, action_object |-> action_object,
                 actor |-> actor, target |-> target])

TagRef(t) == <<"tag", t>>
DocRef(d) == <<"document", d>>

\* variant: the attached event committed with target=self
attached_event_target_self(log, t, user, d) ==
    Commit(log, "attached", TagRef(t), user, TagRef(t))

\* event_tag_attached.commit(action_object=self, actor=user, target=document)
attached_event(log, t, user, d) ==
    Commit(log, "attached", TagRef(t), user, DocRef(d))

\* event_tag_removed.commit(action_object=self, actor=user, target=document)
removed_event(log, t, user, d) ==
    Commit(log, "removed", TagRef(t), user, DocRef(d))

\* EventManagerSave: created when the instance has no row yet
EventManagerSave_created(t) == t \notin Stored

\* variant: the decorator with the two events exchanged
save_event_swapped(log, t, created) ==
    IF created
    THEN Commit(log, "edited", NoRef, None, TagRef(t))
    ELSE Commit(log, "created", NoRef, None, TagRef(t))

\* variant: the decorator without its edited= argument
save_event_created_only(log, t, created) ==
    IF created
    THEN Commit(log, "created", NoRef, None, TagRef(t))
    ELSE log

\* @method_event(created={event_tag_created, target self},
\*               edited={event_tag_edited, target self})
save_event(log, t, created) ==
    IF created
    THEN Commit(log, "created", NoRef, None, TagRef(t))
    ELSE Commit(log, "edited", NoRef, None, TagRef(t))

\* ------------------------------------------------------------ operations
Init ==
    /\ tags = <<>>
    /\ documents = <<>>
    /\ events = <<>>
    /\ acl \in SUBSET (Users \X Documents)
    /\ call = [op |-> "init"]

\* Tag.save() of the instance with primary key t and the given field values
save(t, label, color) ==
    /\ Len(events) < MaxEvents
    /\ LET created == EventManagerSave_created(t)
           dirty == ~created /\ tags[t] # [label |-> label, color |-> color]
       IN  IF LabelTaken(t, label)
           THEN /\ call' = [op |-> "save", created |-> created,
                            dirty |-> dirty, err |-> "IntegrityError"]
                /\ UNCHANGED <<tags, documents, events, acl>>
           ELSE /\ tags' = [o \in Stored \cup {t} |->
                               IF o = t THEN [label |-> label, color |-> color]
                               ELSE tags[o]]
                /\ events' = save_event(events, t, created)
                /\ call' = [op |-> "save", created |-> created,
                            dirty |-> dirty, err |-> "none"]
                /\ UNCHANGED <<documents, acl>>

\* Tag.attach_to(document, user) on a stored tag
attach_to(t, d, user) ==
    /\ Len(events) < MaxEvents
    /\ t \in Stored
    /\ documents' = documents_add(documents, t, d)
    /\ events' = attached_event(events, t, user, d)
    /\ call' = [op |-> "attach_to",
                present |-> HasRow(documents, t, d), err |-> "none"]
    /\ UNCHANGED <<tags, acl>>

\* Tag.remove_from(document, user) on a stored tag; removing a document
\* that is not attached raises nothing
remove_from(t, d, user) ==
    /\ Len(events) < MaxEvents
    /\ t \in Stored
    /\ documents' = documents_remove(documents, t, d)
    /\ events' = removed_event(events, t, user, d)
    /\ call' = [op |-> "remove_from",
                present |-> HasRow(documents, t, d), err |-> "none"]
    /\ UNCHANGED <<tags, acl>>

\* Tag.get_documents(user) on a stored tag
GetDocuments(t, user) ==
    /\ t \in Stored
    /\ call' = [op |-> "get_documents",
                ret |-> get_documents(t, user), err |-> "none"]
    /\ UNCHANGED <<tags, documents, events, acl>>

\* Tag.get_document_count(user) on a stored tag
GetDocumentCount(t, user) ==
    /\ t \in Stored
    /\ call' = [op |-> "get_document_count",
                ret |-> get_document_count(t, user), err |-> "none"]
    /\ UNCHANGED <<tags, documents, events, acl>>

Next ==
    \/ \E t \in TagIds, label \in Labels, color \in Colors : save(t, label, color)
    \/ \E t \in TagIds, d \in Documents, user \in Users \cup {None} :
          attach_to(t, d, user)
    \/ \E t \in TagIds, d \in Documents, user \in Users \cup {None} :
          remove_from(t, d, user)
    \/ \E t \in TagIds, user \in Users : GetDocuments(t, user)
    \/ \E t \in TagIds, user \in Users : GetDocumentCount(t, user)

Spec == Init /\ [][Next]_vars

\* ------------------------------------------------------------ properties
Last(seq) == seq[Len(seq)]

Range(seq) == {seq[i] : i \in 1..Len(seq)}

Max(S) == CHOOSE x \in S : \A y \in S : y <= x

\* the log with one more event, that event having the given verb and target
OneMore(log, log2, verb, target) ==
    /\ Len(log2) = Len(log) + 1
    /\ SubSeq(log2, 1, Len(log)) = log
    /\ Last(log2).verb = verb
    /\ Last(log2).target = target

\* the verb of the last attach_to or remove_from call of tag t for document d
\* in the log, "none" when there was no such call
LastCall(t, d) ==
    LET idx == {i \in 1..Len(events) :
                   /\ events[i].verb \in {"attached", "removed"}
                   /\ events[i].action_object = TagRef(t)
                   /\ events[i].target = DocRef(d)}
    IN  IF idx = {} THEN "none" ELSE events[Max(idx)].verb

\* C1: for a user with view access to document D, get_documents(user) of a
\* tag includes D when the last attach_to/remove_from call of the tag for D
\* was attach_to, and excludes D when it was remove_from or there was none.
C1_LastCallDecidesMembership ==
    \A t \in Stored, d \in Documents, u \in Users :
        <<u, d>> \in acl =>
            /\ LastCall(t, d) = "attached" => d \in Range(get_documents(t, u))
            /\ LastCall(t, d) \in {"removed", "none"} =>
                   d \notin Range(get_documents(t, u))

\* a document was attached, then removed, and get_documents of a user with
\* access to it returned without it
C1_Witness ==
    \E t \in Stored, d \in Documents, u \in Users :
        /\ <<u, d>> \in acl
        /\ Len(events) = 3
        /\ events[2].verb = "attached" /\ events[2].target = DocRef(d)
        /\ events[3].verb = "removed" /\ events[3].target = DocRef(d)
        /\ events[2].action_object = TagRef(t)
        /\ events[3].action_object = TagRef(t)
        /\ call.op = "get_documents" /\ call.ret = <<>>

\* C2: in every state, for every tag and user, get_document_count(user) is
\* the number of documents in get_documents(user).
C2_CountIsNumberOfDocuments ==
    \A t \in Stored, u \in Users :
        get_document_count(t, u) = Cardinality(Range(get_documents(t, u)))

\* a user sees two documents of a tag and get_document_count returned 2
C2_Witness ==
    \E t \in Stored, u \in Users :
        /\ Cardinality(Range(get_documents(t, u))) = 2
        /\ call.op = "get_document_count" /\ call.ret = 2

\* a save of instance t with this label would give two rows the same label
WouldDuplicate(t, label) ==
    \E o \in DOMAIN tags : o # t /\ tags[o].label = label

UniqueLabels ==
    \A a \in DOMAIN tags, b \in DOMAIN tags :
        a # b => tags[a].label # tags[b].label

\* C3: no two stored tags have the same label, and a save that would
\* duplicate a label fails with an integrity error and leaves the stored
\* tags (and the relation and the log) as they were.
C3_LabelUnique ==
    /\ []UniqueLabels
    /\ [][\A t \in TagIds, label \in Labels, color \in Colors :
              (save(t, label, color) /\ WouldDuplicate(t, label)) =>
                  /\ call'.err = "IntegrityError"
                  /\ UNCHANGED <<tags, documents, events>>]_vars

\* two tags are stored and the last save was refused
C3_Witness ==
    /\ Cardinality(DOMAIN tags) = 2
    /\ call.op = "save" /\ call.err = "IntegrityError"

\* C4: attach_to emits exactly one event, "attached", and remove_from exactly
\* one, "removed", with the passed user as actor, the tag as action object
\* and the passed document as target.
C4_RelationEvents ==
    [][\A t \in TagIds, d \in Documents, user \in Users \cup {None} :
          /\ attach_to(t, d, user) =>
                 events' = Append(events,
                     [verb |-> "attached", action_object |-> TagRef(t),
                      actor |-> user, target |-> DocRef(d)])
          /\ remove_from(t, d, user) =>
                 events' = Append(events,
                     [verb |-> "removed", action_object |-> TagRef(t),
                      actor |-> user, target |-> DocRef(d)])]_vars

\* an attach by one actor and a remove by another are in the log
C4_Witness ==
    /\ Len(events) = 3
    /\ events[2].verb = "attached" /\ events[2].actor = None
    /\ events[3].verb = "removed" /\ events[3].actor \in Users
    /\ call.op = "remove_from"

\* C5: a save that inserts a tag emits exactly one event, "created", with the
\* tag as target; a save of a stored tag with a changed label or color emits
\* exactly one event, "edited", with the tag as target.
C5_SaveEvents ==
    [][\A t \in TagIds, label \in Labels, color \in Colors :
          (save(t, label, color) /\ call'.err = "none") =>
              /\ t \notin DOMAIN tags =>
                     OneMore(events, events', "created", TagRef(t))
              /\ (t \in DOMAIN tags
                    /\ tags[t] # [label |-> label, color |-> color]) =>
                     OneMore(events, events', "edited", TagRef(t))]_vars

\* a tag was created and then saved with a changed field
C5_Witness ==
    /\ Len(events) = 2
    /\ events[1].verb = "created"
    /\ events[2].verb = "edited" /\ events[2].target = events[1].target
    /\ call.op = "save" /\ ~call.created /\ call.dirty /\ call.err = "none"

\* C6 as claimed: a save of a stored tag with label and color unchanged
\* emits no event.
C6_UnchangedSaveSilent ==
    [][\A t \in TagIds, label \in Labels, color \in Colors :
          (/\ save(t, label, color)
           /\ t \in DOMAIN tags
           /\ tags[t] = [label |-> label, color |-> color]) =>
              events' = events]_vars

\* C6 as amended: a save of a stored tag with label and color unchanged
\* emits exactly one event, "edited", with the tag as target, as a save with
\* changed fields does.
C6_UnchangedSaveEdited ==
    [][\A t \in TagIds, label \in Labels, color \in Colors :
          (/\ save(t, label, color)
           /\ t \in DOMAIN tags
           /\ tags[t] = [label |-> label, color |-> color]) =>
              /\ call'.err = "none"
              /\ tags' = tags
              /\ OneMore(events, events', "edited", TagRef(t))]_vars

\* a stored tag was saved with its fields unchanged
C6_Witness ==
    /\ call.op = "save" /\ ~call.created /\ ~call.dirty /\ call.err = "none"
    /\ Last(events).verb = "edited"

\* how many rows of the relation pair tag t with document d
Occurrences(rel, t, d) ==
    Cardinality({i \in 1..Len(rel) : rel[i] = Row(t, d)})

\* C7: attach_to of a document the tag already has leaves the tag's
\* documents as they were, the document among them once.
C7_AttachIdempotent ==
    [][\A t \in TagIds, d \in Documents, user \in Users \cup {None} :
          (attach_to(t, d, user) /\ d \in Range(documents_of(documents, t))) =>
              /\ documents_of(documents', t) = documents_of(documents, t)
              /\ Occurrences(documents', t, d) = 1]_vars

\* attach_to was called for a document the tag already had
C7_Witness ==
    /\ call.op = "attach_to" /\ call.present
    /\ Len(events) = 3
    /\ events[2].verb = "attached" /\ events[3] = events[2]
    /\ Len(documents) = 1

\* C8: remove_from of a document the tag does not have raises nothing and
\* leaves the tag's documents as they were.
C8_RemoveAbsentTolerant ==
    [][\A t \in TagIds, d \in Documents, user \in Users \cup {None} :
          (remove_from(t, d, user)
             /\ d \notin Range(documents_of(documents, t))) =>
              /\ call'.err = "none"
              /\ documents_of(documents', t) = documents_of(documents, t)]_vars

\* remove_from was called for a document the tag did not have, while it had
\* another one
C8_Witness ==
    \E t \in Stored, d \in Documents, d2 \in Documents :
        /\ d # d2
        /\ call.op = "remove_from" /\ ~call.present /\ call.err = "none"
        /\ Last(events).verb = "removed"
        /\ Last(events).action_object = TagRef(t)
        /\ Last(events).target = DocRef(d)
        /\ documents = <<Row(t, d2)>>

\* the documents attached to tag t that the user may view
Viewable(t, u) ==
    {d \in Documents : HasRow(documents, t, d) /\ <<u, d>> \in acl}

\* C9: get_documents(user) holds exactly the attached documents the user may
\* view; with none of them viewable it is empty and get_document_count is 0;
\* neither query raises.
C9_PermissionFilter ==
    /\ \A t \in Stored, u \in Users :
          /\ Range(get_documents(t, u)) = Viewable(t, u)
          /\ Viewable(t, u) = {} =>
                 /\ get_documents(t, u) = <<>>
                 /\ get_document_count(t, u) = 0
    /\ call.op \in {"get_documents", "get_document_count"} =>
          call.err = "none"

\* a tag has documents, the user may view none of them, and get_documents
\* returned the empty collection
C9_Witness ==
    \E t \in Stored, u \in Users :
        /\ documents_all(t) # <<>>
        /\ Viewable(t, u) = {}
        /\ call.op = "get_documents" /\ call.ret = <<>> /\ call.err = "none"

====
